---- MODULE Spec2Model ----
(***************************************************************************)
(* scribe: the processing ledger (ledger.py) and the pipeline              *)
(* orchestration with its three run modes (main.py).                       *)
(*                                                                         *)
(* The ledger table is the sequence of its rows in rowid order.  A         *)
(* nullable column holds NULL (the empty tuple) or a one-element tuple.    *)
(* One process runs at a time; a step of the model is one ledger commit    *)
(* or one collaborator call of that process, so a kill between two         *)
(* commits is a behaviour of the model.                                    *)
(***************************************************************************)
EXTENDS Integers, Sequences, FiniteSets, TLC

\* ------------------------------------------------------------------ bounds
MaxClock == 1       \* datetime.now() reads a value in 0..MaxClock
MaxQueue == 1       \* created-events waiting in the observer's queue
MaxSize == 1        \* a recording grows to at most MaxSize bytes
MaxSeconds == 36061 \* the longest recording, in seconds (10:01:01)
MaxUtterances == 3  \* utterances in a transcript response
MaxSpeakerId == 2   \* speaker identifiers are 0..MaxSpeakerId

\* ------------------------------------------------------- program constants
MAX_RETRIES == 3
DEBOUNCE_CHECKS == 3
INITIAL_BACKOFF == 2

\* ------------------------------------------------------------------ inputs
PathSeq == <<"a.m4a", "b.m4a">>      \* the recordings, in sorted order
Paths == {PathSeq[i] : i \in 1..Len(PathSeq)}

NULL == <<>>
Some(v) == <<v>>

MsgNoFile == "[Errno 2] No such file or directory"
MsgTranscribe == "Transcription failed after 3 attempts"
MsgNotes == "Apple Notes creation failed"

\* what datetime.now() can return
Times == 0..MaxClock

VARIABLES
    rows,       \* the table `processed`, in rowid order
    mode,       \* the running process: "off", "backfill", "retry", "watch"
    rpc,        \* where that process is in its run mode
    cfg,        \* Config: which optional settings are present
    m4a_files,  \* _backfill: the glob result still to be looked at
    todo,       \* _backfill/_retry_failed: the get_pending() list still to do
    queue,      \* watch mode: created-events not yet dispatched
    pc,         \* _process_file: the statement to run next
    cur,        \* _process_file: file_path
    start,      \* status of cur's entry when _process_file was entered
    err,        \* the message of the exception being handled
    trace,      \* the calls made by the current _process_file run
    published,  \* history: the paths create_note has returned True for
    completed,  \* history: the paths mark_done has been called for
    last,       \* the ledger call made last when the ledger is driven directly
    durable,    \* the table as the database file holds it (committed)
    exit,       \* how the last process ended, "running" while one runs
    present,    \* _backfill: the *.m4a files the glob found
    snapshot,   \* _backfill/_retry_failed: the get_pending() list as returned
    calls,      \* _backfill/_retry_failed: the paths _process_file was called with
    metadata,   \* _process_file: the RecordingMetadata, NULL before line 74
    generated_title,    \* _process_file: None or the title of the Summary
    generated_summary,  \* _process_file: None or the summary of the Summary
    conn,       \* main: the Ledger's connection: "none", "open", "closed"
    db_file,    \* the permission bits of the database file, NULL while absent
    environ,    \* main: what the process finds: the key set, the watch dir there
    sizes,      \* watcher: the size of each file of the watch dir, NULL if absent
    events,     \* watcher: the created-events the observer has not dispatched
    wpc,        \* on_created: the statement the observer thread runs next
    wev,        \* on_created: the event being handled
    stable_count,   \* _wait_for_stable
    last_size,      \* _wait_for_stable
    reads,      \* history: the latest results of os.path.getsize in this wait
    delivered,  \* history: the paths the callback was invoked with
    fin,        \* formatter called directly: the call and its argument
    fout        \* formatter called directly: what the call returned

vars == <<rows, mode, rpc, cfg, m4a_files, todo, queue, pc, cur, start, err,
          trace, published, completed, last, durable, exit, present, snapshot,
          calls, metadata, generated_title, generated_summary, conn, db_file,
          environ, sizes, events, wpc, wev, stable_count, last_size, reads,
          delivered, fin, fout>>

\* the state of main() outside the run modes
Proc == <<conn, db_file, environ>>

\* the state of the observer thread and of the watched directory
Watch == <<sizes, events, wpc, wev, stable_count, last_size, reads, delivered>>

\* the formatter called directly, as tests/test_formatter.py calls it
Fmt == <<fin, fout>>

\* ------------------------------------------------------------- ledger.py
Idx(l, p) == {i \in 1..Len(l) : l[i].file_path = p}

\* fetchone(): the first matching row
Row(l, p) == l[CHOOSE i \in Idx(l, p) : \A j \in Idx(l, p) : i <= j]

is_known(l, p) == Idx(l, p) # {}

\* mutant: compares with a status no row ever has, so nothing is ever skipped
is_processed_never(l, p) == Idx(l, p) # {} /\ Row(l, p).status = "processed"

is_processed(l, p) == Idx(l, p) # {} /\ Row(l, p).status = "done"

Status(l, p) == IF is_known(l, p) THEN Row(l, p).status ELSE "unknown"

\* mutant: INSERT OR REPLACE, the old row is deleted and a new one inserted
mark_pending_replace(l, p, now) ==
    Append(SelectSeq(l, LAMBDA r : r.file_path # p),
           [file_path |-> p, status |-> "pending", created_at |-> now,
            completed_at |-> NULL, error |-> NULL])

\* INSERT OR IGNORE: the primary key file_path decides the conflict
mark_pending(l, p, now) ==
    IF Idx(l, p) # {} THEN l
    ELSE Append(l, [file_path |-> p, status |-> "pending", created_at |-> now,
                    completed_at |-> NULL, error |-> NULL])

\* mutant: an upsert, a missing row is inserted
mark_processing_upsert(l, p) ==
    IF Idx(l, p) = {}
    THEN Append(l, [file_path |-> p, status |-> "processing", created_at |-> 0,
                    completed_at |-> NULL, error |-> NULL])
    ELSE [i \in 1..Len(l) |->
            IF l[i].file_path = p THEN [l[i] EXCEPT !.status = "processing"] ELSE l[i]]

mark_processing(l, p) ==
    [i \in 1..Len(l) |->
        IF l[i].file_path = p THEN [l[i] EXCEPT !.status = "processing"] ELSE l[i]]

\* mutant: error = NULL is missing from the UPDATE
mark_done_keeps_error(l, p, now) ==
    [i \in 1..Len(l) |->
        IF l[i].file_path = p
        THEN [l[i] EXCEPT !.status = "done", !.completed_at = Some(now)]
        ELSE l[i]]

mark_done(l, p, now) ==
    [i \in 1..Len(l) |->
        IF l[i].file_path = p
        THEN [l[i] EXCEPT !.status = "done", !.completed_at = Some(now), !.error = NULL]
        ELSE l[i]]

\* mutant: the message is not stored
mark_failed_no_error(l, p, error, now) ==
    [i \in 1..Len(l) |->
        IF l[i].file_path = p
        THEN [l[i] EXCEPT !.status = "failed", !.completed_at = Some(now)]
        ELSE l[i]]

mark_failed(l, p, error, now) ==
    [i \in 1..Len(l) |->
        IF l[i].file_path = p
        THEN [l[i] EXCEPT !.status = "failed", !.completed_at = Some(now),
                          !.error = Some(error)]
        ELSE l[i]]

SelectPaths(l, st) ==
    LET hit == SelectSeq(l, LAMBDA r : r.status = st)
    IN  [i \in 1..Len(hit) |-> hit[i].file_path]

get_failed(l) == SelectPaths(l, "failed")

\* mutant: entries in status processing are returned too
get_pending_unfinished(l) ==
    SelectSeq([i \in 1..Len(l) |-> l[i].file_path],
              LAMBDA p : Status(l, p) \in {"pending", "processing"})

get_pending(l) == SelectPaths(l, "pending")

\* mutant: WHERE status != 'done', rows left in processing are reset too
reset_failed_not_done(l) ==
    [i \in 1..Len(l) |->
        IF l[i].status # "done"
        THEN [l[i] EXCEPT !.status = "pending", !.completed_at = NULL, !.error = NULL]
        ELSE l[i]]

\* the UPDATE of reset_failed
reset_failed(l) ==
    [i \in 1..Len(l) |->
        IF l[i].status = "failed"
        THEN [l[i] EXCEPT !.status = "pending", !.completed_at = NULL, !.error = NULL]
        ELSE l[i]]

\* cursor.rowcount of that UPDATE
reset_failed_count(l) == Cardinality({i \in 1..Len(l) : l[i].status = "failed"})

\* mutant: the statement is executed, the commit is missing
commit_missing(view, disk) == disk

\* self._conn.commit(): the database file now holds what the connection sees
commit(view, disk) == view

\* -------------------------------------------------------- transcriber.py
Upstream == {"ok", "transient", "fatal"}

\* mutant: every error is retried, not only the transient ones
RECURSIVE attempt_loop_retry_any(_, _, _)
attempt_loop_retry_any(outs, attempt, slept) ==
    IF attempt >= MAX_RETRIES
    THEN [ok |-> FALSE, msg |-> MsgTranscribe, attempts |-> attempt, slept |-> slept]
    ELSE IF outs[attempt + 1] = "ok"
    THEN [ok |-> TRUE, msg |-> "", attempts |-> attempt + 1, slept |-> slept]
    ELSE IF attempt < MAX_RETRIES - 1
    THEN attempt_loop_retry_any(outs, attempt + 1,
                                Append(slept, INITIAL_BACKOFF * (2 ^ attempt)))
    ELSE [ok |-> FALSE, msg |-> MsgTranscribe, attempts |-> attempt + 1, slept |-> slept]

\* the for loop of transcribe from `attempt` on; outs[k] is what the upstream
\* call of attempt k-1 does
RECURSIVE attempt_loop(_, _, _)
attempt_loop(outs, attempt, slept) ==
    IF attempt >= MAX_RETRIES
    THEN [ok |-> FALSE, msg |-> MsgTranscribe, attempts |-> attempt, slept |-> slept]
    ELSE IF outs[attempt + 1] = "ok"
    THEN [ok |-> TRUE, msg |-> "", attempts |-> attempt + 1, slept |-> slept]
    ELSE IF outs[attempt + 1] = "transient" /\ attempt < MAX_RETRIES - 1
    THEN attempt_loop(outs, attempt + 1, Append(slept, INITIAL_BACKOFF * (2 ^ attempt)))
    ELSE [ok |-> FALSE, msg |-> MsgTranscribe, attempts |-> attempt + 1, slept |-> slept]

\* read_bytes() raises before the loop when the file cannot be read
transcribe(readable, outs) ==
    IF ~readable
    THEN [ok |-> FALSE, msg |-> MsgNoFile, attempts |-> 0, slept |-> <<>>]
    ELSE attempt_loop(outs, 0, <<>>)

\* ------------------------------------------------------------------ db.py
\* a str is the tuple of its characters; None and "" are both the empty tuple
\* where only their truth value is used
EncryptedTitle == <<"Q", "&", "A", " ", "1">>
FallbackTitle == <<"M", "e", "m", "o", " ", "-", " ", "3", ":", "0", "4">>
GeneratedTitle == <<"P", "l", "a", "n", ":", " ", "Q", "3", " ">>
SummaryText == <<"s", "u", "m">>
DateStr == <<"2", "0", "2", "6", "-", "0", "1", "-", "0", "2">>

\* the ZCLOUDRECORDING row whose ZPATH ends in the file name, NULL when no row
\* matches: the first recording was never renamed, the second has no row yet
CloudRecordings ==
    [p \in Paths |->
        IF p = PathSeq[1]
        THEN Some([ZCUSTOMLABEL |-> <<>>, ZENCRYPTEDTITLE |-> EncryptedTitle])
        ELSE NULL]

\* Python's `a or b` on str | None
py_or(a, b) == IF a # <<>> THEN a ELSE b

\* "Voice Memo - <modification time>"
format_fallback_title(p) == FallbackTitle

\* lines 62-83: the title of the RecordingMetadata that is returned
get_recording_metadata(db, p) ==
    IF db[p] # NULL
    THEN [title |-> py_or(py_or(db[p][1].ZCUSTOMLABEL, db[p][1].ZENCRYPTEDTITLE),
                       format_fallback_title(p)),
          date |-> DateStr]
    ELSE [title |-> format_fallback_title(p), date |-> DateStr]

\* ----------------------------------------------------------- formatter.py
\* the value of an Optional[str]: None counts as ""
Str(opt) == IF opt = NULL THEN <<>> ELSE opt[1]

\* format_transcript line 44: the title in the <h1> heading
display_title(title, md) == py_or(Str(title), md.title)

\* _summary_html: `summary.summary` is read whenever `summary` is truthy, and
\* main.py passes result.summary, a str, which has no such attribute
MsgFormat == "'str' object has no attribute 'summary'"

summary_html_raises(summary) == Str(summary) # <<>>

\* ---------------------------------------------------------------- main.py
Alnum ==
    {"a", "b", "c", "d", "e", "f", "g", "h", "i", "j", "k", "l", "m", "n", "o",
     "p", "q", "r", "s", "t", "u", "v", "w", "x", "y", "z",
     "A", "B", "C", "D", "E", "F", "G", "H", "I", "J", "K", "L", "M", "N", "O",
     "P", "Q", "R", "S", "T", "U", "V", "W", "X", "Y", "Z",
     "0", "1", "2", "3", "4", "5", "6", "7", "8", "9"}

\* str.strip() for the one whitespace character that survives the filter
RECURSIVE lstrip(_)
lstrip(t) == IF t # <<>> /\ Head(t) = " " THEN lstrip(Tail(t)) ELSE t

RECURSIVE rstrip(_)
rstrip(t) ==
    IF t # <<>> /\ t[Len(t)] = " " THEN rstrip(SubSeq(t, 1, Len(t) - 1)) ELSE t

\* _save_markdown line 53
safe_title(title) ==
    lstrip(rstrip(SelectSeq(title, LAMBDA c : c \in Alnum \cup {" ", "-", "_"})))

\* _save_markdown line 54
filename(title, date_str) ==
    date_str \o <<" ", "-", " ">> \o safe_title(title) \o <<".", "m", "d">>

\* mutant: the metadata title wins over the generated title
note_title_metadata_first(gen, md) == py_or(md.title, Str(gen))

\* line 108: note_title = generated_title or metadata.title
note_title(gen, md) == py_or(Str(gen), md.title)

Config == [openai_api_key : BOOLEAN, output_dir : BOOLEAN]

NoConfig == [openai_api_key |-> FALSE, output_dir |-> FALSE]

NoCall == [op |-> "none", path |-> "none", ret |-> 0]

\* what main() reads from its environment before it opens the ledger
Environ == [DEEPGRAM_API_KEY : BOOLEAN, watch_dir : BOOLEAN]

NoEnviron == [DEEPGRAM_API_KEY |-> FALSE, watch_dir |-> FALSE]

\* permission bits of a file
OwnerOnly == {"u_r", "u_w"}

\* the bits sqlite3 asks for when it creates the database file (0644)
CreateMode == {"u_r", "u_w", "g_r", "o_r"}

\* the umask of the process: 022 or 077
Umasks == {{"g_w", "o_w"}, {"g_r", "g_w", "g_x", "o_r", "o_w", "o_x"}}

\* no formatter call has been made
NoFormat == [op |-> "none", arg |-> 0]

\* a created-event of the observer
NoEvent == [src_path |-> "none", is_directory |-> FALSE]

\* mutant: mark_done is called before the note is created
NextStage_done_first(stage, c) ==
    CASE stage = "metadata" -> "transcribe"
      [] stage = "transcribe" -> IF c.openai_api_key THEN "summarize" ELSE "format"
      [] stage = "summarize" -> "format"
      [] stage = "format" -> "mark_done"
      [] stage = "mark_done" -> "create_note"
      [] stage = "create_note" -> IF c.output_dir THEN "save_markdown" ELSE "return"
      [] stage = "save_markdown" -> "return"

\* mutant: summarize is called whether or not there is an OpenAI key
NextStage_always_summarize(stage, c) ==
    CASE stage = "metadata" -> "transcribe"
      [] stage = "transcribe" -> "summarize"
      [] stage = "summarize" -> "format"
      [] stage = "format" -> "create_note"
      [] stage = "create_note" -> IF c.output_dir THEN "save_markdown" ELSE "mark_done"
      [] stage = "save_markdown" -> "mark_done"
      [] stage = "mark_done" -> "return"

\* the statement of _process_file that follows `stage` when it succeeds
NextStage(stage, c) ==
    CASE stage = "metadata" -> "transcribe"
      [] stage = "transcribe" -> IF c.openai_api_key THEN "summarize" ELSE "format"
      [] stage = "summarize" -> "format"
      [] stage = "format" -> "create_note"
      [] stage = "create_note" -> IF c.output_dir THEN "save_markdown" ELSE "mark_done"
      [] stage = "save_markdown" -> "mark_done"
      [] stage = "mark_done" -> "return"

\* datetime.now() in a run of main(): a logical clock that has advanced once
\* for every row inserted so far
Now(l) == Len(l)

\* the day after the recordings were made
NextDate == <<"2", "0", "2", "6", "-", "0", "1", "-", "0", "3">>

\* datetime.now() as a calendar date: the recordings were made on the day the
\* clock started, and midnight passes when the clock reaches 2
Today(l) == IF Now(l) < 2 THEN DateStr ELSE NextDate

\* sorted(Path(watch_dir).glob("*.m4a")) when the files present are `files`
Glob(files) == SelectSeq(PathSeq, LAMBDA p : p \in files)

InitBase ==
    /\ rows = <<>>
    /\ mode = "off"
    /\ rpc = "off"
    /\ cfg = NoConfig
    /\ m4a_files = <<>>
    /\ todo = <<>>
    /\ queue = <<>>
    /\ pc = "idle"
    /\ cur = "none"
    /\ start = "none"
    /\ err = ""
    /\ trace = <<>>
    /\ published = {}
    /\ completed = {}
    /\ last = NoCall
    /\ durable = <<>>
    /\ exit = "never"
    /\ present = {}
    /\ snapshot = <<>>
    /\ calls = <<>>
    /\ metadata = NULL
    /\ generated_title = NULL
    /\ generated_summary = NULL
    /\ conn = "none"
    /\ db_file = NULL
    /\ environ = NoEnviron
    /\ sizes = [p \in Paths |-> NULL]
    /\ events = <<>>
    /\ wpc = "idle"
    /\ wev = NoEvent
    /\ stable_count = 0
    /\ last_size = -1
    /\ reads = <<>>
    /\ delivered = {}

\* nothing has run yet
Init ==
    /\ InitBase
    /\ fin = NoFormat
    /\ fout = NULL

\* no _process_file frame is active
NoFrame ==
    /\ pc' = "idle"
    /\ cur' = "none"
    /\ start' = "none"
    /\ err' = ""
    /\ trace' = <<>>
    /\ metadata' = NULL
    /\ generated_title' = NULL
    /\ generated_summary' = NULL

\* the process is gone: only the committed table remains
ProcessEnds ==
    /\ mode' = "off"
    /\ rpc' = "off"
    /\ cfg' = NoConfig
    /\ m4a_files' = <<>>
    /\ todo' = <<>>
    /\ queue' = <<>>
    /\ present' = {}
    /\ snapshot' = <<>>
    /\ calls' = <<>>
    /\ environ' = NoEnviron
    /\ NoFrame
    /\ UNCHANGED <<db_file, Watch, Fmt>>

\* the call _process_file(p, ledger, cfg)
Call(p) ==
    /\ pc' = "enter"
    /\ cur' = p
    /\ start' = Status(rows, p)
    /\ err' = ""
    /\ trace' = <<>>
    /\ metadata' = NULL
    /\ generated_title' = NULL
    /\ generated_summary' = NULL

\* the locals of _process_file that carry the titles
Locals == <<metadata, generated_title, generated_summary>>

\* sys.exit(1): the process ends before it has opened the ledger
SysExit1 ==
    /\ ProcessEnds
    /\ exit' = "exit1"
    /\ rows' = durable
    /\ UNCHANGED <<durable, published, completed, last, conn>>

\* main(), lines 168-193: the transcription key is required, then cfg is built
MainCheckKey ==
    /\ mode # "off" /\ rpc = "check_key"
    /\ IF environ.DEEPGRAM_API_KEY
         THEN /\ \E c \in Config : cfg' = c
              /\ rpc' = "check_dir"
              /\ UNCHANGED <<rows, mode, m4a_files, todo, queue, pc, cur, start,
                             err, trace, published, completed, last, durable,
                             exit, present, snapshot, calls, Locals, Proc, Watch, Fmt>>
         ELSE SysExit1

\* mutant: the watched directory is not looked at
MainCheckDir_unchecked ==
    /\ mode # "off" /\ rpc = "check_dir"
    /\ rpc' = "ledger"
    /\ UNCHANGED <<rows, mode, cfg, m4a_files, todo, queue, pc, cur, start,
                   err, trace, published, completed, last, durable,
                   exit, present, snapshot, calls, Locals, Proc, Watch, Fmt>>

\* main(), lines 195-200: the watched directory is required
MainCheckDir ==
    /\ mode # "off" /\ rpc = "check_dir"
    /\ IF environ.watch_dir
         THEN /\ rpc' = "ledger"
              /\ UNCHANGED <<rows, mode, cfg, m4a_files, todo, queue, pc, cur,
                             start, err, trace, published, completed, last,
                             durable, exit, present, snapshot, calls, Locals,
                             Proc, Watch, Fmt>>
         ELSE SysExit1

\* the bits of a file created under the umask `mask`
created(mask) == CreateMode \ mask

\* main() line 202, Ledger.__init__ lines 23-28: connect creates the database
\* file if there is none, with the bits the umask leaves; an existing file
\* keeps its bits
LedgerConnect ==
    /\ mode # "off" /\ rpc = "ledger"
    /\ conn' = "open"
    /\ \E mask \in Umasks :
          db_file' = IF db_file = NULL THEN Some(created(mask)) ELSE db_file
    /\ rpc' = "chmod"
    /\ UNCHANGED <<rows, mode, cfg, m4a_files, todo, queue, pc, cur, start,
                   err, trace, published, completed, last, durable, exit,
                   present, snapshot, calls, Locals, environ, Watch, Fmt>>

\* Ledger.__init__ line 30: chmod(0o600); then main() enters the run mode it
\* was asked for (_backfill globs the watch dir, line 138)
LedgerChmod ==
    /\ mode # "off" /\ rpc = "chmod"
    /\ db_file' = Some(OwnerOnly)
    /\ IF mode = "backfill"
         THEN /\ rpc' = "scan"
              /\ \E files \in SUBSET Paths :
                    /\ present' = files
                    /\ m4a_files' = Glob(files)
         ELSE /\ rpc' = IF mode = "retry" THEN "reset" ELSE "observe"
              /\ UNCHANGED <<present, m4a_files>>
    /\ UNCHANGED <<rows, mode, cfg, todo, queue, pc, cur, start, err, trace,
                   published, completed, last, durable, exit, snapshot, calls,
                   Locals, conn, environ, Watch, Fmt>>

\* main() is started with --backfill, --retry-failed or neither
StartBackfill ==
    /\ mode = "off"
    /\ \E e \in Environ : environ' = e
    /\ mode' = "backfill"
    /\ rpc' = "check_key"
    /\ exit' = "running"
    /\ conn' = "none"
    /\ UNCHANGED <<rows, cfg, m4a_files, todo, queue, pc, cur, start, err, trace,
                   published, completed, last, durable, present, snapshot,
                   calls, Locals, db_file, Watch, Fmt>>

\* _backfill: one turn of the loop over m4a_files
BackfillScan ==
    /\ mode = "backfill" /\ rpc = "scan" /\ m4a_files # <<>>
    /\ rows' = IF is_known(rows, Head(m4a_files)) THEN rows
               ELSE mark_pending(rows, Head(m4a_files), Now(rows))
    /\ durable' = commit(rows', durable)
    /\ m4a_files' = Tail(m4a_files)
    /\ UNCHANGED <<mode, rpc, cfg, todo, queue, pc, cur, start, err, trace,
                   published, completed, last, exit, present, snapshot, calls,
                   Locals,
                   Proc, Watch, Fmt>>

\* mutant: only the files the glob found are processed
BackfillList_globbed_only ==
    /\ mode = "backfill" /\ rpc = "scan" /\ m4a_files = <<>>
    /\ todo' = SelectSeq(get_pending(rows), LAMBDA p : p \in present)
    /\ snapshot' = todo'
    /\ rpc' = "loop"
    /\ UNCHANGED <<rows, mode, cfg, m4a_files, queue, pc, cur, start, err,
                   trace, published, completed, last, durable, exit, present,
                   calls, Locals,
                   Proc, Watch, Fmt>>

\* _backfill: ledger.get_pending() is evaluated once, when the second loop starts
BackfillList ==
    /\ mode = "backfill" /\ rpc = "scan" /\ m4a_files = <<>>
    /\ todo' = get_pending(rows)
    /\ snapshot' = todo'
    /\ rpc' = "loop"
    /\ UNCHANGED <<rows, mode, cfg, m4a_files, queue, pc, cur, start, err,
                   trace, published, completed, last, durable, exit, present,
                   calls, Locals,
                   Proc, Watch, Fmt>>

StartRetry ==
    /\ mode = "off"
    /\ \E e \in Environ : environ' = e
    /\ mode' = "retry"
    /\ rpc' = "check_key"
    /\ exit' = "running"
    /\ conn' = "none"
    /\ UNCHANGED <<rows, cfg, m4a_files, todo, queue, pc, cur, start, err, trace,
                   published, completed, last, durable, present, snapshot,
                   calls, Locals, db_file, Watch, Fmt>>

\* mutant: get_pending() is evaluated before reset_failed()
RetryReset_list_first ==
    /\ mode = "retry" /\ rpc = "reset"
    /\ rows' = reset_failed(rows)
    /\ durable' = commit(rows', durable)
    /\ todo' = get_pending(rows)
    /\ snapshot' = todo'
    /\ rpc' = "loop"
    /\ UNCHANGED <<mode, cfg, m4a_files, queue, pc, cur, start, err, trace,
                   published, completed, last, exit, present, calls, Locals,
                   Proc, Watch, Fmt>>

\* _retry_failed: reset_failed(), then get_pending() for the loop
RetryReset ==
    /\ mode = "retry" /\ rpc = "reset"
    /\ rows' = reset_failed(rows)
    /\ durable' = commit(rows', durable)
    /\ todo' = get_pending(reset_failed(rows))
    /\ snapshot' = todo'
    /\ rpc' = "loop"
    /\ UNCHANGED <<mode, cfg, m4a_files, queue, pc, cur, start, err, trace,
                   published, completed, last, exit, present, calls, Locals,
                   Proc, Watch, Fmt>>

\* mutant: the loop does not move on to the next path
LoopCall_no_advance ==
    /\ mode \in {"backfill", "retry"} /\ rpc = "loop" /\ pc = "idle"
    /\ todo # <<>>
    /\ Call(Head(todo))
    /\ todo' = todo
    /\ calls' = Append(calls, Head(todo))
    /\ UNCHANGED <<rows, mode, rpc, cfg, m4a_files, queue, published, completed,
                   last, durable, exit, present, snapshot,
                   Proc, Watch, Fmt>>

\* for fp in ledger.get_pending(): _process_file(fp, ledger, cfg)
LoopCall ==
    /\ mode \in {"backfill", "retry"} /\ rpc = "loop" /\ pc = "idle"
    /\ todo # <<>>
    /\ Call(Head(todo))
    /\ todo' = Tail(todo)
    /\ calls' = Append(calls, Head(todo))
    /\ UNCHANGED <<rows, mode, rpc, cfg, m4a_files, queue, published, completed,
                   last, durable, exit, present, snapshot,
                   Proc, Watch, Fmt>>

\* the loop is exhausted: main() returns
LoopEnd ==
    /\ mode \in {"backfill", "retry"} /\ rpc = "loop" /\ pc = "idle"
    /\ todo = <<>>
    /\ ProcessEnds
    /\ exit' = "returned"
    /\ rows' = durable
    /\ UNCHANGED <<durable, published, completed, last, conn>>

StartWatch ==
    /\ mode = "off"
    /\ \E e \in Environ : environ' = e
    /\ mode' = "watch"
    /\ rpc' = "check_key"
    /\ exit' = "running"
    /\ conn' = "none"
    /\ UNCHANGED <<rows, cfg, m4a_files, todo, queue, pc, cur, start, err, trace,
                   published, completed, last, durable, present, snapshot,
                   calls, Locals, db_file, Watch, Fmt>>

\* a created-event for a non-directory *.m4a path enters the observer's queue
FileCreated ==
    /\ mode = "watch" /\ rpc = "observe"
    /\ Len(queue) < MaxQueue
    /\ \E p \in Paths : queue' = Append(queue, p)
    /\ UNCHANGED <<rows, mode, rpc, cfg, m4a_files, todo, pc, cur, start,
                   err, trace, published, completed, last, durable, exit,
                   present, snapshot, calls, Locals,
                   Proc, Watch, Fmt>>

\* mutant: every event is handled on a thread of its own
Dispatch_threaded ==
    /\ mode = "watch" /\ rpc = "observe"
    /\ queue # <<>>
    /\ Call(Head(queue))
    /\ queue' = Tail(queue)
    /\ UNCHANGED <<rows, mode, rpc, cfg, m4a_files, todo, published, completed,
                   last, durable, exit, present, snapshot, calls,
                   Proc, Watch, Fmt>>

\* on_created: the size is stable, the callback on_new_recording runs
Dispatch ==
    /\ mode = "watch" /\ rpc = "observe" /\ pc = "idle"
    /\ queue # <<>>
    /\ Call(Head(queue))
    /\ queue' = Tail(queue)
    /\ UNCHANGED <<rows, mode, rpc, cfg, m4a_files, todo, published, completed,
                   last, durable, exit, present, snapshot, calls,
                   Proc, Watch, Fmt>>

\* SIGINT/SIGTERM: shutdown() calls observer.stop(); the observer dispatches
\* no further event, the handler that is running runs to its end
Signal ==
    /\ mode = "watch" /\ rpc = "observe"
    /\ rpc' = "stopping"
    /\ queue' = <<>>
    /\ UNCHANGED <<rows, mode, cfg, m4a_files, todo, pc, cur, start,
                   err, trace, published, completed, last, durable, exit,
                   present, snapshot, calls, Locals,
                   Proc, Watch, Fmt>>

\* mutant: shutdown() does not wait for the observer thread
Shutdown_no_join ==
    /\ mode = "watch" /\ rpc = "stopping"
    /\ ProcessEnds
    /\ exit' = "exit0"
    /\ rows' = durable
    /\ conn' = "closed"
    /\ UNCHANGED <<durable, published, completed, last>>

\* shutdown(): observer.join() returns, ledger.close(), sys.exit(0)
Shutdown ==
    /\ mode = "watch" /\ rpc = "stopping" /\ pc = "idle"
    /\ ProcessEnds
    /\ exit' = "exit0"
    /\ rows' = durable
    /\ conn' = "closed"
    /\ UNCHANGED <<durable, published, completed, last>>

\* the process is killed: what the next process finds is the database file
Crash ==
    /\ mode # "off"
    /\ ProcessEnds
    /\ exit' = "killed"
    /\ rows' = durable
    /\ UNCHANGED <<durable, published, completed, last, conn>>

\* ------------------------------------------------------- _process_file
Frame == <<mode, rpc, cfg, m4a_files, todo, queue, cur, start, last, exit,
           present, snapshot, calls, Proc, Watch, Fmt>>

Log(call, arg) == Append(trace, <<call, arg>>)

\* lines 62-67
PF_Enter ==
    /\ pc = "enter"
    /\ IF is_processed(rows, cur)
       THEN /\ pc' = "return"
            /\ UNCHANGED <<rows, trace>>
       ELSE /\ pc' = "mark_processing"
            /\ IF is_known(rows, cur)
               THEN UNCHANGED <<rows, trace>>
               ELSE /\ rows' = mark_pending(rows, cur, Now(rows))
                    /\ trace' = Log("mark_pending", cur)
    /\ durable' = commit(rows', durable)
    /\ UNCHANGED <<Frame, err, published, completed, Locals>>

\* line 69
PF_MarkProcessing ==
    /\ pc = "mark_processing"
    /\ rows' = mark_processing(rows, cur)
    /\ trace' = Log("mark_processing", cur)
    /\ pc' = "metadata"
    /\ durable' = commit(rows', durable)
    /\ UNCHANGED <<Frame, err, published, completed, Locals>>

\* the call returned: on to the statement that follows `stage`
ContinueArg(stage, call, arg) ==
    /\ trace' = Log(call, arg)
    /\ pc' = NextStage(stage, cfg)
    /\ UNCHANGED err

Continue(stage, call) == ContinueArg(stage, call, cur)

\* the call (or the statement after it) raised: control goes to the except
\* clause, where str(e) is `msg`
RaiseArg(call, arg, msg) ==
    /\ trace' = Append(Log(call, arg), <<"raise", msg>>)
    /\ err' = msg
    /\ pc' = "except"

Raise(call, msg) == RaiseArg(call, cur, msg)

\* line 74: metadata comes back, or the stat() of the fallback raises
PF_Metadata ==
    /\ pc = "metadata"
    /\ \/ /\ Continue("metadata", "get_recording_metadata")
          /\ metadata' = get_recording_metadata(CloudRecordings, cur)
       \/ /\ Raise("get_recording_metadata", MsgNoFile)
          /\ UNCHANGED metadata
    /\ UNCHANGED <<Frame, rows, durable, published, completed, generated_title,
                   generated_summary>>

\* line 78
PF_Transcribe ==
    /\ pc = "transcribe"
    /\ \E readable \in BOOLEAN, outs \in [1..MAX_RETRIES -> Upstream] :
          LET r == transcribe(readable, outs)
          IN  IF r.ok THEN Continue("transcribe", "transcribe")
              ELSE Raise("transcribe", r.msg)
    /\ UNCHANGED <<Frame, rows, durable, published, completed, Locals>>

\* what summarize can return: the usual Summary, one with an empty summary,
\* one with an empty title as well
Summaries ==
    {[title |-> GeneratedTitle, summary |-> SummaryText],
     [title |-> GeneratedTitle, summary |-> <<>>],
     [title |-> <<>>, summary |-> <<>>]}

\* mutant: the try/except around summarize is missing
PF_Summarize_uncaught ==
    /\ pc = "summarize"
    /\ \/ /\ UNCHANGED <<trace, generated_title, generated_summary, err>>
          /\ pc' = NextStage("summarize", cfg)
       \/ /\ trace' = Append(Log("summarize", cur), <<"caught", "summarize">>)
          /\ err' = MsgNoFile
          /\ pc' = "except"
          /\ UNCHANGED <<generated_title, generated_summary>>
    /\ UNCHANGED <<Frame, rows, durable, published, completed, metadata>>

\* lines 83-105: summarize is called when there is transcript text; whatever
\* it raises is caught here
PF_Summarize ==
    /\ pc = "summarize"
    /\ \/ /\ UNCHANGED <<trace, generated_title, generated_summary>>
       \/ /\ trace' = Append(Log("summarize", cur), <<"caught", "summarize">>)
          /\ UNCHANGED <<generated_title, generated_summary>>
       \/ \E result \in Summaries :
             /\ trace' = Log("summarize", cur)
             /\ generated_title' = Some(result.title)
             /\ generated_summary' = Some(result.summary)
    /\ pc' = NextStage("summarize", cfg)
    /\ UNCHANGED <<Frame, rows, durable, err, published, completed, metadata>>

\* lines 108-109: format_transcript(response, metadata, title=generated_title,
\* summary=generated_summary) returns the html or raises in _summary_html
PF_Format ==
    /\ pc = "format"
    /\ LET arg == [title |-> display_title(generated_title, metadata),
                   summary |-> generated_summary]
       IN  IF summary_html_raises(generated_summary)
           THEN RaiseArg("format_transcript", arg, MsgFormat)
           ELSE ContinueArg("format", "format_transcript", arg)
    /\ UNCHANGED <<Frame, rows, durable, published, completed, Locals>>

\* mutant: the value create_note returns is not looked at
PF_CreateNote_ignores_result ==
    /\ pc = "create_note"
    /\ LET arg == note_title(generated_title, metadata)
       IN  \/ /\ ContinueArg("create_note", "create_note", arg)
              /\ published' = published \cup {cur}
           \/ /\ trace' = Append(Log("create_note", arg), <<"raise", MsgNotes>>)
              /\ pc' = NextStage("create_note", cfg)
              /\ UNCHANGED <<err, published>>
    /\ UNCHANGED <<Frame, rows, durable, completed, Locals>>

\* lines 112-114: create_note returns True, returns False (line 114 raises),
\* or raises itself out of _ensure_folder
PF_CreateNote ==
    /\ pc = "create_note"
    /\ LET arg == note_title(generated_title, metadata)
       IN  \/ /\ ContinueArg("create_note", "create_note", arg)
              /\ published' = published \cup {cur}
           \/ /\ RaiseArg("create_note", arg, MsgNotes)
              /\ UNCHANGED published
           \/ /\ RaiseArg("create_note", arg, MsgNoFile)
              /\ UNCHANGED published
    /\ UNCHANGED <<Frame, rows, durable, completed, Locals>>

\* lines 117-122
PF_SaveMarkdown ==
    /\ pc = "save_markdown"
    /\ LET arg == filename(note_title(generated_title, metadata), metadata.date)
       IN  \/ ContinueArg("save_markdown", "_save_markdown", arg)
           \/ RaiseArg("_save_markdown", arg, MsgNoFile)
    /\ UNCHANGED <<Frame, rows, durable, published, completed, Locals>>

\* line 125
PF_MarkDone ==
    /\ pc = "mark_done"
    /\ rows' = mark_done(rows, cur, Now(rows))
    /\ trace' = Log("mark_done", cur)
    /\ completed' = completed \cup {cur}
    /\ pc' = NextStage("mark_done", cfg)
    /\ durable' = commit(rows', durable)
    /\ UNCHANGED <<Frame, err, published, Locals>>

\* mutant: the except clause notifies without marking the file failed
PF_Except_no_mark ==
    /\ pc = "except"
    /\ trace' = Log("mark_failed", err)
    /\ pc' = "notify"
    /\ UNCHANGED <<Frame, rows, durable, err, published, completed, Locals>>

\* lines 128-131
PF_Except ==
    /\ pc = "except"
    /\ rows' = mark_failed(rows, cur, err, Now(rows))
    /\ trace' = Log("mark_failed", err)
    /\ pc' = "notify"
    /\ durable' = commit(rows', durable)
    /\ UNCHANGED <<Frame, err, published, completed, Locals>>

\* line 132: notify_error returns, or subprocess.run raises out of the except
\* clause and the exception ends the process
PF_Notify ==
    /\ pc = "notify"
    /\ \/ /\ trace' = Log("notify_error", cur)
          /\ pc' = "return"
          /\ UNCHANGED <<Frame, err, rows, Locals>>
       \/ /\ ProcessEnds
          /\ exit' = "exception"
          /\ rows' = durable
          /\ UNCHANGED <<last, conn>>
    /\ UNCHANGED <<durable, published, completed>>

\* _process_file has returned to its caller
PF_Return ==
    /\ pc = "return"
    /\ NoFrame
    /\ UNCHANGED <<rows, mode, rpc, cfg, m4a_files, todo, queue, published,
                   completed, last, durable, exit, present, snapshot, calls,
                   Proc, Watch, Fmt>>

Next ==
    \/ StartBackfill
    \/ StartRetry
    \/ StartWatch
    \/ MainCheckKey
    \/ MainCheckDir
    \/ LedgerConnect
    \/ LedgerChmod
    \/ BackfillScan
    \/ BackfillList
    \/ RetryReset
    \/ LoopCall
    \/ LoopEnd
    \/ FileCreated
    \/ Dispatch
    \/ Signal
    \/ Shutdown
    \/ Crash
    \/ PF_Enter
    \/ PF_MarkProcessing
    \/ PF_Metadata
    \/ PF_Transcribe
    \/ PF_Summarize
    \/ PF_Format
    \/ PF_CreateNote
    \/ PF_SaveMarkdown
    \/ PF_MarkDone
    \/ PF_Except
    \/ PF_Notify
    \/ PF_Return

Spec == Init /\ [][Next]_vars

\* ------------------------------------------------- the batch modes alone
\* a step of a running backfill or retry run
RunStep ==
    \/ MainCheckKey
    \/ MainCheckDir
    \/ LedgerConnect
    \/ LedgerChmod
    \/ BackfillScan
    \/ BackfillList
    \/ RetryReset
    \/ LoopCall
    \/ LoopEnd
    \/ PF_Enter
    \/ PF_MarkProcessing
    \/ PF_Metadata
    \/ PF_Transcribe
    \/ PF_Summarize
    \/ PF_Format
    \/ PF_CreateNote
    \/ PF_SaveMarkdown
    \/ PF_MarkDone
    \/ PF_Except
    \/ PF_Notify
    \/ PF_Return

NextBatch ==
    \/ StartBackfill
    \/ StartRetry
    \/ Crash
    \/ RunStep

\* every call a run makes returns or raises, so a run that can take a step
\* takes one; nothing obliges a run to be started or the process to be killed
SpecBatch == Init /\ [][NextBatch]_vars /\ WF_vars(RunStep)

\* ------------------------------------------------------------ watcher.py
\* the names that appear in the watched directory, with their last four
\* characters; "take1.m4a" is a directory
WatchNames == Paths \cup {"notes.txt", "take1.m4a"}

Suffix4(name) == IF name = "notes.txt" THEN ".txt" ELSE ".m4a"

Directories == {"take1.m4a"}

\* everything the observer thread and the watched directory do not touch
RestW == <<rows, mode, rpc, cfg, m4a_files, todo, queue, pc, cur, start, err,
           trace, published, completed, last, durable, exit, present, snapshot,
           calls, Locals, Proc, Fmt>>

Event(name) == [src_path |-> name, is_directory |-> name \in Directories]

\* there is no file p in the watched directory
Absent(fs, p) == IF fs[p] = NULL THEN TRUE ELSE fs[p][1].st = "deleted"

\* a recording appears (again) in the watched directory: the observer queues
\* a created-event for it
FS_Create ==
    /\ Len(events) < MaxQueue
    /\ \E p \in Paths :
          /\ Absent(sizes, p)
          /\ sizes' = [sizes EXCEPT ![p] = Some([size |-> 0, st |-> "open"])]
          /\ events' = Append(events, Event(p))
    /\ UNCHANGED <<RestW, wpc, wev, stable_count, last_size, reads, delivered>>

\* something that is not a recording appears in the watched directory
FS_CreateOther ==
    /\ Len(events) < MaxQueue
    /\ \E name \in WatchNames \ Paths : events' = Append(events, Event(name))
    /\ UNCHANGED <<RestW, sizes, wpc, wev, stable_count, last_size, reads,
                   delivered>>

\* the recorder appends to a recording
FS_Write ==
    /\ \E p \in Paths :
          /\ sizes[p] # NULL
          /\ sizes[p][1].st = "open"
          /\ sizes[p][1].size < MaxSize
          /\ sizes' = [sizes EXCEPT ![p] = Some([@[1] EXCEPT !.size = @ + 1])]
    /\ UNCHANGED <<RestW, events, wpc, wev, stable_count, last_size, reads,
                   delivered>>

\* the recorder is done with a recording: from now on nothing changes it
FS_Finish ==
    /\ \E p \in Paths :
          /\ sizes[p] # NULL
          /\ sizes[p][1].st = "open"
          /\ sizes' = [sizes EXCEPT ![p] = Some([@[1] EXCEPT !.st = "final"])]
    /\ UNCHANGED <<RestW, events, wpc, wev, stable_count, last_size, reads,
                   delivered>>

\* a recording that is still being written is deleted or moved away
FS_Delete ==
    /\ \E p \in Paths :
          /\ sizes[p] # NULL
          /\ sizes[p][1].st = "open"
          /\ sizes' = [sizes EXCEPT ![p] = Some([@[1] EXCEPT !.st = "deleted"])]
    /\ UNCHANGED <<RestW, events, wpc, wev, stable_count, last_size, reads,
                   delivered>>

\* os.path.getsize(file_path): the size, or NULL when it raises OSError
getsize(fs, p) ==
    IF Absent(fs, p) THEN NULL ELSE Some(fs[p][1].size)

\* the latest DEBOUNCE_CHECKS + 1 results of getsize
Latest(rs) ==
    IF Len(rs) > DEBOUNCE_CHECKS + 1 THEN Tail(rs) ELSE rs

\* on_created, lines 21-26: the observer thread takes the next event;
\* directories and other names are dropped, for a recording
\* _wait_for_stable starts (lines 32-33)
W_OnCreated ==
    /\ wpc = "idle" /\ events # <<>>
    /\ events' = Tail(events)
    /\ IF Head(events).is_directory \/ Suffix4(Head(events).src_path) # ".m4a"
         THEN UNCHANGED <<wpc, wev>>
         ELSE wpc' = "check" /\ wev' = Head(events)
    /\ stable_count' = 0
    /\ last_size' = -1
    /\ reads' = <<>>
    /\ UNCHANGED <<RestW, sizes, delivered>>

\* _wait_for_stable, lines 35-44: one size check
W_Check ==
    /\ wpc = "check"
    /\ LET current_size == getsize(sizes, wev.src_path)
       IN  /\ reads' = Latest(Append(reads, current_size))
           /\ IF current_size = NULL
                THEN UNCHANGED <<stable_count, last_size>>
                ELSE /\ stable_count' = IF current_size[1] = last_size
                                        THEN stable_count + 1 ELSE 0
                     /\ last_size' = current_size[1]
    /\ wpc' = "sleep"
    /\ UNCHANGED <<RestW, sizes, events, wev, delivered>>

\* time.sleep(DEBOUNCE_INTERVAL), then the test of the while loop (line 34)
W_Sleep ==
    /\ wpc = "sleep"
    /\ wpc' = IF stable_count < DEBOUNCE_CHECKS THEN "check" ELSE "callback"
    /\ UNCHANGED <<RestW, sizes, events, wev, stable_count, last_size, reads,
                   delivered>>

\* on_created, line 28: self._callback(event.src_path) runs and returns
W_Callback ==
    /\ wpc = "callback"
    /\ delivered' = delivered \cup {wev.src_path}
    /\ wpc' = "idle"
    /\ wev' = NoEvent
    /\ UNCHANGED <<RestW, sizes, events, stable_count, last_size, reads>>

\* a step of the observer thread
WatcherStep ==
    \/ W_OnCreated
    \/ W_Check
    \/ W_Sleep
    \/ W_Callback

NextWatcher ==
    \/ FS_Create
    \/ FS_CreateOther
    \/ FS_Write
    \/ FS_Finish
    \/ FS_Delete
    \/ WatcherStep

\* the observer thread is never starved: when it can take a step it takes
\* one; nothing obliges the directory to change
SpecWatcher == Init /\ [][NextWatcher]_vars /\ WF_vars(WatcherStep)

\* --------------------------------------- retry-failed run again and again
\* as SpecBatch, and a retry-failed run is started again and again (the
\* user, or a scheduler, keeps retrying), whatever is run in between
SpecRetry ==
    Init /\ [][NextBatch]_vars /\ WF_vars(RunStep) /\ SF_vars(StartRetry)

\* ------------------------------------------- the ledger driven directly
\* (as tests/test_ledger.py drives it: any call, in any order)
Msgs == {MsgNoFile, MsgTranscribe, MsgNotes}

MarkOps == {"mark_pending", "mark_processing", "mark_done", "mark_failed"}

Rest == <<mode, rpc, cfg, m4a_files, todo, queue, pc, cur, start, err, trace,
          published, completed, exit, present, snapshot, calls, Locals, Proc,
          Watch, Fmt>>

L_MarkPending ==
    /\ \E p \in Paths, now \in Times :
          /\ rows' = mark_pending(rows, p, now)
          /\ durable' = commit(rows', durable)
          /\ last' = [op |-> "mark_pending", path |-> p, ret |-> 0]
    /\ UNCHANGED Rest

L_MarkProcessing ==
    /\ \E p \in Paths :
          /\ rows' = mark_processing(rows, p)
          /\ durable' = commit(rows', durable)
          /\ last' = [op |-> "mark_processing", path |-> p, ret |-> 0]
    /\ UNCHANGED Rest

L_MarkDone ==
    /\ \E p \in Paths, now \in Times :
          /\ rows' = mark_done(rows, p, now)
          /\ durable' = commit(rows', durable)
          /\ last' = [op |-> "mark_done", path |-> p, ret |-> 0]
    /\ UNCHANGED Rest

L_MarkFailed ==
    /\ \E p \in Paths, m \in Msgs, now \in Times :
          /\ rows' = mark_failed(rows, p, m, now)
          /\ durable' = commit(rows', durable)
          /\ last' = [op |-> "mark_failed", path |-> p, ret |-> 0]
    /\ UNCHANGED Rest

L_ResetFailed ==
    /\ rows' = reset_failed(rows)
    /\ durable' = commit(rows', durable)
    /\ last' = [op |-> "reset_failed", path |-> "none", ret |-> reset_failed_count(rows)]
    /\ UNCHANGED Rest

NextLedger ==
    \/ L_MarkPending
    \/ L_MarkProcessing
    \/ L_MarkDone
    \/ L_MarkFailed
    \/ L_ResetFailed

SpecLedger == Init /\ [][NextLedger]_vars

\* ------------------------------------------- the formatter called directly
\* (as tests/test_formatter.py calls it: one call on one input)
DigitChars == <<"0", "1", "2", "3", "4", "5", "6", "7", "8", "9">>

\* f"{n}" for an int n >= 0
RECURSIVE Digits(_)
Digits(n) ==
    IF n < 10 THEN <<DigitChars[n + 1]>>
    ELSE Digits(n \div 10) \o <<DigitChars[(n % 10) + 1]>>

\* f"{n:02d}"
Pad2(n) == IF n < 10 THEN <<"0">> \o Digits(n) ELSE Digits(n)

\* mutant: the seconds are not padded
format_duration_unpadded(seconds) ==
    LET hrs == seconds \div 3600
        remainder == seconds % 3600
        mins == remainder \div 60
        secs == remainder % 60
    IN  IF hrs > 0
        THEN Digits(hrs) \o <<":">> \o Pad2(mins) \o <<":">> \o Digits(secs)
        ELSE Digits(mins) \o <<":">> \o Digits(secs)

\* _format_duration, for a whole number of seconds
format_duration(seconds) ==
    LET hrs == seconds \div 3600
        remainder == seconds % 3600
        mins == remainder \div 60
        secs == remainder % 60
    IN  IF hrs > 0
        THEN Digits(hrs) \o <<":">> \o Pad2(mins) \o <<":">> \o Pad2(secs)
        ELSE Digits(mins) \o <<":">> \o Pad2(secs)

\* the utterances of a response: who spoke, and the text, which may be blank
SpeakerIds == 0..MaxSpeakerId

Texts == {<<"H", "i">>, <<" ">>}

Utterance == [speaker : SpeakerIds, transcript : Texts]

Responses == UNION {[1..n -> Utterance] : n \in 0..MaxUtterances}

\* str.strip()
strip(t) == rstrip(lstrip(t))

count_speakers(utterances) ==
    Cardinality({utterances[i].speaker : i \in 1..Len(utterances)})

\* the loop of _format_multi_speaker: a line "Speaker <label>: <text>" for
\* every utterance whose text is not blank
RECURSIVE format_multi_speaker(_)
format_multi_speaker(utterances) ==
    IF utterances = <<>> THEN <<>>
    ELSE LET u == Head(utterances)
             speaker == u.speaker + 1
             text == strip(u.transcript)
         IN  (IF text # <<>>
              THEN <<[label |-> Some(speaker), text |-> text]>>
              ELSE <<>>) \o format_multi_speaker(Tail(utterances))

\* the loop of _format_single_speaker: the text alone
RECURSIVE format_single_speaker(_)
format_single_speaker(utterances) ==
    IF utterances = <<>> THEN <<>>
    ELSE LET text == strip(Head(utterances).transcript)
         IN  (IF text # <<>> THEN <<[label |-> NULL, text |-> text]>> ELSE <<>>)
             \o format_single_speaker(Tail(utterances))

\* format_transcript, lines 49-55: the lines after the heading
format_transcript(utterances) ==
    IF utterances # <<>> /\ count_speakers(utterances) > 1
    THEN format_multi_speaker(utterances)
    ELSE format_single_speaker(utterances)

FormatCalls ==
    [op : {"_format_duration"}, arg : 0..MaxSeconds]
        \cup [op : {"format_transcript"}, arg : Responses]

\* everything the formatter does not touch
RestF == <<rows, mode, rpc, cfg, m4a_files, todo, queue, pc, cur, start, err,
           trace, published, completed, last, durable, exit, present, snapshot,
           calls, Locals, Proc, Watch, fin>>

\* one call is about to be made, on any input
InitFormatter ==
    /\ InitBase
    /\ fin \in FormatCalls
    /\ fout = NULL

F_FormatDuration ==
    /\ fin.op = "_format_duration" /\ fout = NULL
    /\ fout' = Some(format_duration(fin.arg))
    /\ UNCHANGED RestF

F_FormatTranscript ==
    /\ fin.op = "format_transcript" /\ fout = NULL
    /\ fout' = Some(format_transcript(fin.arg))
    /\ UNCHANGED RestF

NextFormatter ==
    \/ F_FormatDuration
    \/ F_FormatTranscript

SpecFormatter == InitFormatter /\ [][NextFormatter]_vars

\* ================================================================ claims
Called(call) == {i \in 1..Len(trace) : trace[i][1] = call}

Range(f) == {f[i] : i \in 1..Len(f)}

\* the step in which create_note returns True
PublishSucceeds == pc = "create_note" /\ pc' \in {"save_markdown", "mark_done", "return"}

\* C1: _process_file on a path whose entry is done returns at once: no call
\* of a collaborator or of a ledger mutator is made and the table is unchanged.
C1_DoneIsSkipped ==
    [][(pc = "enter" /\ Status(rows, cur) = "done" /\ pc' # pc /\ mode' # "off")
          => (pc' = "return" /\ rows' = rows /\ trace' = <<>>
              /\ published' = published)]_vars

C1_Witness == pc = "return" /\ start = "done" /\ trace = <<>>

\* C2: when create_note is about to be called for a path, the entry of that
\* path is not done.
C2_NeverPublishDone == pc = "create_note" => Status(rows, cur) # "done"

C2_Witness == pc = "create_note" /\ cur \in published /\ Status(rows, cur) = "processing"

\* the edges of the status state machine
AllowedEdges ==
    {<<"unknown", "pending">>, <<"pending", "processing">>, <<"processing", "done">>,
     <<"processing", "failed">>, <<"failed", "pending">>}

\* C3 (as claimed): a status changes only along pending->processing,
\* processing->done, processing->failed and failed->pending, the last only by
\* reset_failed; a done entry never changes.
C3_OnlyAllowedEdges ==
    [][\A p \in Paths :
          LET a == Status(rows, p)
              b == Status(rows', p)
          IN  /\ a = b \/ <<a, b>> \in AllowedEdges
              /\ (a = "failed" /\ b = "pending") => rpc = "reset"]_vars

\* C4 (as claimed): create_note returns True at most once for a path.
C4_PublishedAtMostOnce == [][PublishSucceeds => cur \notin published]_vars

\* C4 (amended): a recording is completed at most once: after mark_done(p)
\* create_note never returns True for p again and mark_done(p) is not called
\* again.
C4_NothingAfterDone ==
    [][/\ PublishSucceeds => cur \notin completed
       /\ (pc = "mark_done" /\ pc' # pc /\ mode' # "off") => cur \notin completed]_vars

C4_Witness == pc = "enter" /\ cur \in completed /\ cur \in published

\* C5: a done entry has error NULL, a failed entry has a non-NULL error.
C5_DoneFailedError ==
    \A i \in 1..Len(rows) :
        /\ rows[i].status = "done" => rows[i].error = NULL
        /\ rows[i].status = "failed" => rows[i].error # NULL

C5_Witness ==
    /\ pc = "return" /\ start = "failed" /\ Status(rows, cur) = "done"
    /\ \E i \in 1..Len(rows) : rows[i].status = "failed"

\* C6 (as claimed): error is non-NULL only while the status is failed.
C6_ErrorOnlyWhileFailed ==
    \A i \in 1..Len(rows) : rows[i].error # NULL => rows[i].status = "failed"

\* C7: mark_pending(p) inserts one pending row when p has none and changes
\* nothing when p has a row, whatever its status; get_pending() holds p at
\* most once.
C7_MarkPendingIdempotent ==
    [][last'.op = "mark_pending" =>
          LET p == last'.path
          IN  /\ Idx(rows, p) # {} => rows' = rows
              /\ Idx(rows, p) = {} =>
                    /\ Len(rows') = Len(rows) + 1
                    /\ SubSeq(rows', 1, Len(rows)) = rows
                    /\ rows'[Len(rows')].file_path = p
                    /\ rows'[Len(rows')].status = "pending"
                    /\ rows'[Len(rows')].completed_at = NULL
                    /\ rows'[Len(rows')].error = NULL
              /\ Cardinality(Idx(rows', p)) = 1
              /\ Cardinality({i \in 1..Len(get_pending(rows')) :
                                 get_pending(rows')[i] = p}) <= 1]_vars

C7_Witness ==
    /\ last.op = "mark_pending"
    /\ Status(rows, last.path) = "failed"
    /\ \E q \in Paths : Status(rows, q) = "done"

\* C8 (as claimed): is_known(p) is false until a mark_* call is made for p and
\* true after the first one, whichever it is.
C8_KnownAfterAnyMark ==
    [][\A p \in Paths :
          is_known(rows', p) <=>
              (is_known(rows, p) \/ (last'.op \in MarkOps /\ last'.path = p))]_vars

\* C8 (amended): is_known(p) is false until mark_pending(p) is called and true
\* from then on; mark_processing, mark_done and mark_failed create no entry.
C8_KnownAfterMarkPending ==
    [][\A p \in Paths :
          is_known(rows', p) <=>
              (is_known(rows, p) \/ (last'.op = "mark_pending" /\ last'.path = p))]_vars

C8_Witness ==
    /\ last.op \in {"mark_processing", "mark_done", "mark_failed"}
    /\ ~is_known(rows, last.path)

\* C9: reset_failed() turns every failed row into pending with completed_at
\* and error NULL, returns the number of rows that were failed, leaves the
\* other rows as they were; afterwards get_failed() is empty and get_pending()
\* holds every path that was failed.
C9_ResetFailed ==
    [][last'.op = "reset_failed" =>
          /\ Len(rows') = Len(rows)
          /\ \A i \in 1..Len(rows) :
                IF rows[i].status = "failed"
                THEN /\ rows'[i] = [rows[i] EXCEPT !.status = "pending",
                                                   !.completed_at = NULL,
                                                   !.error = NULL]
                     /\ rows[i].file_path \in Range(get_pending(rows'))
                ELSE rows'[i] = rows[i]
          /\ last'.ret = Cardinality({i \in 1..Len(rows) : rows[i].status = "failed"})
          /\ get_failed(rows') = <<>>]_vars

C9_Witness ==
    /\ last.op = "reset_failed" /\ last.ret = 1
    /\ \E i \in 1..Len(rows) : rows[i].status = "processing" /\ rows[i].error # NULL

\* transcribe was called and raised
TranscribeRaised ==
    \E i \in Called("transcribe") : i < Len(trace) /\ trace[i + 1][1] = "raise"

\* str(e) of the exception raised in the current run
RaisedMsg == trace[CHOOSE i \in Called("raise") : TRUE][2]

\* C10: for a path the ledger did not know, when transcribe raises, then once
\* _process_file has returned the entry is failed with the raised message,
\* which is not empty, one notification naming the file was sent, and
\* create_note, _save_markdown and mark_done were not called.
C10_TranscribeFails ==
    (pc = "return" /\ start = "unknown" /\ TranscribeRaised) =>
        /\ Status(rows, cur) = "failed"
        /\ Row(rows, cur).error = Some(RaisedMsg)
        /\ RaisedMsg # ""
        /\ Cardinality(Called("notify_error")) = 1
        /\ \A i \in Called("notify_error") : trace[i][2] = cur
        /\ Called("create_note") = {}
        /\ Called("_save_markdown") = {}
        /\ Called("mark_done") = {}

C10_Witness ==
    /\ pc = "return" /\ start = "unknown" /\ TranscribeRaised
    /\ RaisedMsg = MsgTranscribe

\* C11 (as claimed): no error of a stage escapes _process_file, so no process
\* is ever ended by an exception raised while a file is handled.
C11_NoErrorEscapes == exit # "exception"

\* C12 (as claimed): when notify_error is reached in the except clause, then
\* whether or not the notifier works _process_file returns, the run goes on
\* with the files it still has to do, and the entry is failed with its error.
C12_NotifierFailureContained ==
    [][(pc = "notify" /\ pc' # "notify" /\ exit' # "killed")
          => /\ pc' = "return"
             /\ exit' = "running"
             /\ todo' = todo
             /\ Status(rows', cur) = "failed"
             /\ Row(rows', cur).error # NULL]_vars

\* summarize was called and what it raised was caught at line 104
SummarizeRaised ==
    \E i \in Called("summarize") : i < Len(trace) /\ trace[i + 1][1] = "caught"

\* C13: with an OpenAI key configured, when summarize raises the run goes on
\* to format_transcript and create_note with the metadata title and no
\* summary, the entry is not failed for it, and when no later stage raises
\* the entry is done once _process_file has returned and no notification was
\* sent.
C13_SummarizeFailureRecovered ==
    (cfg.openai_api_key /\ SummarizeRaised) =>
        /\ generated_title = NULL /\ generated_summary = NULL
        /\ Called("format_transcript") = {} => pc = "format"
        /\ \A i \in Called("format_transcript") :
              trace[i][2] = [title |-> metadata.title, summary |-> NULL]
        /\ \A i \in Called("create_note") : trace[i][2] = metadata.title
        /\ Called("raise") = {} =>
              /\ pc \notin {"except", "notify"}
              /\ Called("mark_failed") = {}
              /\ Called("notify_error") = {}
              /\ Status(rows, cur) = IF Called("mark_done") = {} THEN "processing"
                                     ELSE "done"
              /\ pc = "return" => Status(rows, cur) = "done"

C13_Witness ==
    /\ pc = "return" /\ cfg.openai_api_key /\ SummarizeRaised
    /\ Called("create_note") # {} /\ Status(rows, cur) = "done"

\* C14: without an OpenAI key summarize is never called; for a path the ledger
\* did not know, when no stage raises, the entry is done once _process_file
\* has returned and create_note was given the title of the metadata.
C14_NoKeyNoSummarizer ==
    ~cfg.openai_api_key =>
        /\ Called("summarize") = {}
        /\ generated_title = NULL
        /\ (pc = "return" /\ start = "unknown" /\ Called("raise") = {}) =>
              /\ Status(rows, cur) = "done"
              /\ Cardinality(Called("create_note")) = 1
              /\ \A i \in Called("create_note") : trace[i][2] = metadata.title

C14_Witness ==
    /\ pc = "return" /\ start = "unknown" /\ ~cfg.openai_api_key
    /\ Called("raise") = {} /\ Called("create_note") # {}
    /\ Status(rows, cur) = "done"

\* the title the database holds for p, empty when it holds none
DbTitle(p) ==
    IF CloudRecordings[p] = NULL THEN <<>>
    ELSE IF CloudRecordings[p][1].ZCUSTOMLABEL # <<>>
    THEN CloudRecordings[p][1].ZCUSTOMLABEL
    ELSE CloudRecordings[p][1].ZENCRYPTEDTITLE

\* generated title, else title of the database, else fallback title
ChosenTitle ==
    IF generated_title # NULL /\ generated_title[1] # <<>> THEN generated_title[1]
    ELSE IF DbTitle(cur) # <<>> THEN DbTitle(cur)
    ELSE FallbackTitle

CreateNoteFailed ==
    \E i \in Called("create_note") : i < Len(trace) /\ trace[i + 1][1] = "raise"

\* C16: when create_note returns False or raises, neither _save_markdown nor
\* mark_done is called in that run, and once _process_file has returned the
\* entry is failed with the raised message as its error and one notification
\* was sent.
C16_PublisherFailure ==
    CreateNoteFailed =>
        /\ Called("_save_markdown") = {}
        /\ Called("mark_done") = {}
        /\ pc \in {"except", "notify", "return"}
        /\ pc \in {"notify", "return"} =>
              /\ Status(rows, cur) = "failed"
              /\ Row(rows, cur).error # NULL
              /\ Row(rows, cur).error = Some(RaisedMsg)
        /\ pc = "return" => Cardinality(Called("notify_error")) = 1

C16_Witness ==
    /\ pc = "return" /\ CreateNoteFailed /\ RaisedMsg = MsgNotes
    /\ Status(rows, cur) = "failed"

\* a sequence without repetitions
NoDup(f) == \A i, j \in 1..Len(f) : f[i] = f[j] => i = j

\* the paths whose entry has one of the statuses `sts`
PathsIn(l, sts) == {p \in Paths : Status(l, p) \in sts}

\* C17: the first loop of _backfill only ever appends a pending row for a
\* globbed path that had no row; when the second loop starts every globbed
\* path has a row and the list to process is every pending path, each once,
\* whoever left it pending; _process_file is called on that list in order;
\* when _backfill returns it has been called on all of it and none of those
\* entries is pending.
C17_Backfill ==
    [][mode = "backfill" =>
          /\ (rpc = "scan" /\ rows' # rows) =>
                /\ Len(rows') = Len(rows) + 1
                /\ SubSeq(rows', 1, Len(rows)) = rows
                /\ rows'[Len(rows')].status = "pending"
                /\ rows'[Len(rows')].file_path \in present
                /\ ~is_known(rows, rows'[Len(rows')].file_path)
          /\ (rpc = "scan" /\ rpc' = "loop") =>
                /\ \A p \in present : Status(rows, p) # "unknown"
                /\ Range(snapshot') = PathsIn(rows, {"pending"})
                /\ NoDup(snapshot')
                /\ calls' = <<>>
          /\ (pc = "idle" /\ pc' = "enter") =>
                /\ calls' = Append(calls, cur')
                /\ calls' = SubSeq(snapshot, 1, Len(calls'))
          /\ exit' = "returned" =>
                /\ calls = snapshot
                /\ \A p \in Range(snapshot) : Status(rows', p) \in {"done", "failed"}]_vars

C17_Witness ==
    /\ mode = "backfill" /\ rpc = "loop" /\ pc = "idle" /\ todo = <<>>
    /\ Len(calls) = 2
    /\ \E p \in Range(calls) : p \notin present

\* C18: _retry_failed resets once, and the list it then processes is every
\* path whose entry was failed or pending when the run started, each once;
\* _process_file is called on that list in order and on nothing else; when
\* _retry_failed returns it has been called on all of it.
C18_RetryFailed ==
    [][mode = "retry" =>
          /\ (rpc = "reset" /\ rows' # rows) => rpc' = "loop"
          /\ (rpc = "reset" /\ rpc' = "loop") =>
                /\ Range(snapshot') = PathsIn(rows, {"failed", "pending"})
                /\ NoDup(snapshot')
                /\ calls' = <<>>
          /\ rpc = "loop" => rpc' \in {"loop", "off"}
          /\ (pc = "idle" /\ pc' = "enter") =>
                /\ calls' = Append(calls, cur')
                /\ calls' = SubSeq(snapshot, 1, Len(calls'))
          /\ exit' = "returned" => calls = snapshot]_vars

C18_Witness ==
    /\ mode = "retry" /\ rpc = "loop" /\ pc = "idle" /\ todo = <<>>
    /\ Len(calls) = 1
    /\ \E p \in Paths : p \notin Range(calls) /\ Status(rows, p) = "processing"

\* C19: under the assumption that every call made by a batch run returns or
\* raises, a backfill or retry run ends; until then _process_file has been
\* called at most once for each path of the list taken at the start, and for
\* no other path.
C19_BatchTerminates ==
    /\ [](mode \in {"backfill", "retry"} =>
             /\ NoDup(calls)
             /\ Len(calls) <= Len(snapshot)
             /\ calls = SubSeq(snapshot, 1, Len(calls)))
    /\ (mode \in {"backfill", "retry"}) ~> (mode = "off")

C19_Witness ==
    /\ mode = "retry" /\ rpc = "loop" /\ pc = "idle" /\ todo = <<>>
    /\ Len(calls) = 2
    /\ Status(rows, calls[1]) = "failed"

\* the statements between the commit of mark_processing and the commit of
\* mark_done or mark_failed
MidStages ==
    {"metadata", "transcribe", "summarize", "format", "create_note",
     "save_markdown", "mark_done", "except"}

\* C20: when the process is killed, what the database file holds is what the
\* ledger calls completed so far have written, nothing more and nothing
\* less; the entry of a file killed between the commit of mark_processing
\* and that of mark_done or mark_failed is in status processing.
C20_CrashLeavesProcessing ==
    [][(mode # "off" /\ exit' = "killed") =>
          /\ rows' = rows
          /\ pc \in MidStages => Status(rows', cur) = "processing"]_vars

C20_Witness ==
    /\ mode = "off" /\ exit = "killed"
    /\ \E p, q \in Paths :
          /\ Status(rows, p) = "processing"
          /\ Status(rows, q) = "failed"

\* C21: an entry that is in status processing and is not the file the run
\* is working on (so it was left by an earlier process) is not touched by a
\* backfill or retry run: no step of the run changes its row, puts it into
\* the list the run was given by get_pending(), or calls _process_file for
\* it, so it is still processing when the run ends.
C21_StaleProcessingKept ==
    [][(mode \in {"backfill", "retry"}) =>
          (\A p \in Paths :
              (Status(rows, p) = "processing" /\ p # cur) =>
                  /\ Status(rows', p) = "processing"
                  /\ Row(rows', p) = Row(rows, p)
                  /\ p \notin Range(todo')
                  /\ cur' # p)]_vars

C21_Witness ==
    /\ mode = "backfill" /\ rpc = "loop" /\ pc = "idle" /\ todo = <<>>
    /\ calls # <<>>
    /\ \E p \in Paths : p \notin Range(calls) /\ Status(rows, p) = "processing"

C23_OneProcessFileAtATime ==
    /\ [](pc = "idle" <=> cur = "none")
    /\ [][(/\ pc' = "enter"
            /\ \/ pc # "enter"
               \/ /\ queue # <<>> /\ queue' = Tail(queue)
                  /\ cur' = Head(queue) /\ rpc' = rpc
               \/ todo # <<>> /\ todo' = Tail(todo))
             => (pc = "idle" /\ cur = "none")]_vars

C23_Witness ==
    /\ mode = "watch" /\ pc = "transcribe"
    /\ queue # <<>> /\ Head(queue) # cur

\* C26 (as claimed): whenever a process that had opened the ledger has ended
\* in the regular way (the batch run finished, or watch mode was
\* interrupted by a signal), Ledger.close() had been called.
C26_ClosedOnEveryExit ==
    (mode = "off" /\ exit \in {"returned", "exit0"}) => conn = "closed"

\* C27: while the transcription key is not set or the watched directory
\* does not exist, the process (in any of the three run modes) has not
\* opened the ledger and has called _process_file for nothing; none of its
\* steps changes the table, the database file or its permission bits, and
\* when it ends (unless it is killed first) it ends by sys.exit(1).
C27_FatalStartup ==
    /\ []((mode # "off" /\ ~(environ.DEEPGRAM_API_KEY /\ environ.watch_dir)) =>
             /\ conn = "none"
             /\ rpc \in {"check_key", "check_dir"}
             /\ pc = "idle" /\ calls = <<>>)
    /\ [][(mode # "off" /\ ~(environ.DEEPGRAM_API_KEY /\ environ.watch_dir)) =>
             /\ rows' = rows /\ durable' = durable /\ db_file' = db_file
             /\ conn' = "none" /\ pc' = "idle"
             /\ mode' = "off" => exit' \in {"exit1", "killed"}]_vars

C27_Witness ==
    /\ mode = "off" /\ exit = "exit1" /\ conn = "none"
    /\ \E p \in Paths : Status(rows, p) = "failed"

\* C28 (as claimed): whenever the database file exists, its permission bits
\* are owner read/write only.
C28_OwnerOnlyAlways == db_file # NULL => db_file[1] \subseteq OwnerOnly

\* C30 (as claimed): get_recording_metadata never raises, so no
\* _process_file run goes to its except clause from the metadata stage.
C30_MetadataNeverRaises ==
    \A i \in Called("get_recording_metadata") :
        ~(i < Len(trace) /\ trace[i + 1][1] = "raise")

Detected(p) ==
    \/ \E i \in 1..Len(events) : events[i] = Event(p)
    \/ wpc # "idle" /\ wev = Event(p)

\* the recording p is there and its size has stopped changing for good
Settled(p) == sizes[p] # NULL /\ sizes[p][1].st = "final"

\* C24 (as claimed): every created recording whose size stops changing is
\* eventually passed to the callback, whatever happens to the recordings
\* detected before it.
C24_EveryStableFileProcessed ==
    \A p \in Paths : (Detected(p) /\ Settled(p)) ~> (p \in delivered)

\* the results of the latest n size checks of this wait
LastReads(n) == SubSeq(reads, Len(reads) - n + 1, Len(reads))

\* C25 (as claimed): the callback is invoked only for a created
\* non-directory whose name ends in .m4a, and only after DEBOUNCE_CHECKS
\* consecutive size checks each returned the same size as the check before
\* it; a check that returns another size than the one before resets the
\* count of stable checks to zero.
C25_DebouncedCallback ==
    /\ [](wpc = "callback" =>
            /\ ~wev.is_directory /\ Suffix4(wev.src_path) = ".m4a"
            /\ Len(reads) >= DEBOUNCE_CHECKS + 1
            /\ \A i \in 1..(DEBOUNCE_CHECKS + 1) :
                  /\ LastReads(DEBOUNCE_CHECKS + 1)[i] # NULL
                  /\ LastReads(DEBOUNCE_CHECKS + 1)[i] = reads[Len(reads)])
    /\ [][(/\ wpc = "check" /\ wpc' = "sleep"
           /\ getsize(sizes, wev.src_path) # NULL
           /\ getsize(sizes, wev.src_path) # Some(last_size))
             => stable_count' = 0]_vars

\* the number, counting from 1 in order of first appearance, of the speaker
\* of utterance i
FirstAppearance(utterances, i) ==
    LET first == CHOOSE j \in 1..i :
                    /\ utterances[j].speaker = utterances[i].speaker
                    /\ \A k \in 1..(j - 1) :
                          utterances[k].speaker # utterances[i].speaker
    IN  Cardinality({utterances[k].speaker : k \in 1..first})

\* the utterances whose text is not blank, in order
Spoken(utterances) == SelectSeq(utterances, LAMBDA u : u.transcript # <<" ">>)

\* C31 (as claimed): for a response with at least 2 distinct speakers, every
\* utterance that is not blank is labelled with the number of its speaker in
\* order of first appearance in the utterance list.
C31_LabelsByFirstAppearance ==
    (/\ fin.op = "format_transcript" /\ fout # NULL
     /\ Cardinality({fin.arg[i].speaker : i \in 1..Len(fin.arg)}) >= 2) =>
        \A i \in 1..Len(fin.arg) :
            fin.arg[i].transcript # <<" ">> =>
                fout[1][Len(Spoken(SubSeq(fin.arg, 1, i)))].label
                    = Some(FirstAppearance(fin.arg, i))

\* the value of a decimal numeral
DigitValue(c) == CHOOSE d \in 0..9 : DigitChars[d + 1] = c

RECURSIVE Value(_)
Value(t) ==
    IF t = <<>> THEN 0
    ELSE 10 * Value(SubSeq(t, 1, Len(t) - 1)) + DigitValue(t[Len(t)])

\* a decimal numeral
Numeral(t) == t # <<>> /\ \A i \in 1..Len(t) : t[i] \in Range(DigitChars)

\* a decimal numeral without padding
Unpadded(t) == Numeral(t) /\ (Len(t) > 1 => t[1] # "0")

\* the fields of a string, which are separated by ":"
RECURSIVE Fields(_)
Fields(t) ==
    IF ":" \notin Range(t) THEN <<t>>
    ELSE LET i == CHOOSE i \in 1..Len(t) :
                    t[i] = ":" /\ \A j \in 1..(i - 1) : t[j] # ":"
         IN  <<SubSeq(t, 1, i - 1)>> \o Fields(SubSeq(t, i + 1, Len(t)))

\* C32: for every whole number of seconds s >= 0 the rendered duration is
\* M:SS when s < 3600 and H:MM:SS when s >= 3600, with H (or M when there
\* are no hours) unpadded and the other fields two digits wide, and the
\* fields read back give H * 3600 + M * 60 + S = s with S < 60, and M < 60
\* when hours are shown.
C32_Duration ==
    (fin.op = "_format_duration" /\ fout # NULL) =>
        LET s == fin.arg
            f == Fields(fout[1])
        IN  /\ \A i \in 1..Len(f) : Numeral(f[i])
            /\ Unpadded(f[1])
            /\ \A i \in 2..Len(f) : Len(f[i]) = 2
            /\ IF s < 3600
               THEN /\ Len(f) = 2
                    /\ Value(f[1]) * 60 + Value(f[2]) = s
                    /\ Value(f[2]) < 60
               ELSE /\ Len(f) = 3
                    /\ Value(f[1]) * 3600 + Value(f[2]) * 60 + Value(f[3]) = s
                    /\ Value(f[2]) < 60 /\ Value(f[3]) < 60

C32_Witness ==
    /\ fin = [op |-> "_format_duration", arg |-> 3661]
    /\ fout = Some(<<"1", ":", "0", "1", ":", "0", "1">>)

\* the place of a call in the stage sequence of _process_file, 0 for what
\* is not a stage
StageRank(call) ==
    CASE call = "mark_processing" -> 1
      [] call = "get_recording_metadata" -> 2
      [] call = "transcribe" -> 3
      [] call = "summarize" -> 4
      [] call = "format_transcript" -> 5
      [] call = "create_note" -> 6
      [] call = "_save_markdown" -> 7
      [] call = "mark_done" -> 8
      [] OTHER -> 0

\* the call was made in this run and returned without raising
Returned(call) ==
    /\ Called(call) # {}
    /\ \A i \in Called(call) : ~(i < Len(trace) /\ trace[i + 1][1] = "raise")

\* C33: the stage calls of one _process_file run are made in the order
\* mark_processing, get_recording_metadata, transcribe, summarize,
\* format_transcript, create_note, _save_markdown, mark_done, each at most
\* once; mark_done is called only in a run in which nothing raised,
\* transcribe and create_note returned and, when an output directory is
\* configured, _save_markdown returned; summarize and _save_markdown are
\* called only when they are configured.
C33_StageOrder ==
    /\ \A i, j \in 1..Len(trace) :
          (i < j /\ StageRank(trace[i][1]) > 0 /\ StageRank(trace[j][1]) > 0)
              => StageRank(trace[i][1]) < StageRank(trace[j][1])
    /\ Called("mark_done") # {} =>
          /\ \A i \in Called("raise") : \A j \in Called("mark_done") : j < i
          /\ Returned("mark_processing")
          /\ Returned("get_recording_metadata")
          /\ Returned("transcribe")
          /\ Returned("format_transcript")
          /\ Returned("create_note")
          /\ cfg.output_dir => Returned("_save_markdown")
          /\ Called("summarize") # {} => cfg.openai_api_key
          /\ Called("_save_markdown") # {} => cfg.output_dir

C33_Witness ==
    /\ pc = "return" /\ cfg.output_dir /\ cfg.openai_api_key
    /\ Called("summarize") # {} /\ Called("_save_markdown") # {}
    /\ Called("mark_done") # {} /\ Status(rows, cur) = "done"

\* the statuses an entry can have when _process_file is entered
StartStates == {"unknown", "pending", "processing", "failed", "done"}

\* C34: whenever _process_file has returned, the entry of its path is done
\* or failed, whatever the entry was when the run began and whatever the
\* collaborators did: done exactly when the run was skipped or called
\* mark_done, failed exactly when it went through the except clause.
C34_ReturnsDoneOrFailed ==
    pc = "return" =>
        /\ start \in StartStates
        /\ Status(rows, cur) \in {"done", "failed"}
        /\ Status(rows, cur) = "failed" <=> Called("mark_failed") # {}
        /\ Status(rows, cur) = "done" <=>
              (start = "done" \/ Called("mark_done") # {})

C34_Witness ==
    /\ pc = "return" /\ start = "processing"
    /\ Status(rows, cur) = "failed" /\ Called("create_note") # {}

\* C35: no step removes the entry of a path or changes its created_at: a
\* path that is known stays known, with one row, and the row keeps the
\* created_at it was inserted with, across mark_pending, mark_processing,
\* mark_done, mark_failed and reset_failed.
C35_EntriesPermanent ==
    [][\A p \in Paths :
          is_known(rows, p) =>
              /\ is_known(rows', p)
              /\ Cardinality(Idx(rows', p)) = 1
              /\ Row(rows', p).created_at = Row(rows, p).created_at]_vars

C35_Witness ==
    /\ last.op = "mark_done" /\ is_known(rows, last.path)
    /\ Row(rows, last.path).created_at = 0
    /\ Row(rows, last.path).completed_at = Some(1)
    /\ \E q \in Paths : Status(rows, q) = "pending" /\ Row(rows, q).created_at = 1

\* C37 (as claimed): _save_markdown is called only with an output directory
\* configured and after create_note returned success; the file is named
\* "<date> - <sanitized title>.md" with the date on which the run completes
\* and a title of alphanumerics, spaces, hyphens and underscores only; and
\* when the write raises the entry ends failed although the note is
\* published.
C37_Archival ==
    \A i \in Called("_save_markdown") :
        LET name == trace[i][2]
            title == SubSeq(name, 14, Len(name) - 3)
        IN  /\ cfg.output_dir
            /\ \E j \in Called("create_note") :
                  j < i /\ trace[j + 1][1] # "raise"
            /\ SubSeq(name, 1, 10) = Today(rows)
            /\ SubSeq(name, 11, 13) = <<" ", "-", " ">>
            /\ SubSeq(name, Len(name) - 2, Len(name)) = <<".", "m", "d">>
            /\ \A k \in 1..Len(title) : title[k] \in Alnum \cup {" ", "-", "_"}
            /\ (pc = "return" /\ i < Len(trace) /\ trace[i + 1][1] = "raise") =>
                  (Status(rows, cur) = "failed" /\ cur \in published)

\* no collaborator call of the current run has failed: nothing was raised by
\* the metadata lookup, the transcriber, the summarizer, the publisher, the
\* archival write or the notifier (what the renderer raises on the values
\* _process_file hands it is not a collaborator failing), and the process
\* was not killed and did not fail at startup
Healthy ==
    /\ exit \in {"never", "running", "returned"}
    /\ Called("caught") = {}
    /\ \A i \in Called("raise") : i > 1 /\ trace[i - 1][1] = "format_transcript"

\* C36 (as claimed): once every collaborator call succeeds, and retry-failed
\* is run again and again, a failed entry eventually becomes done.
C36_RetryToCompletion ==
    \A p \in Paths :
        [](([]Healthy /\ Status(rows, p) = "failed")
              => <>(Status(rows, p) = "done"))

====
